---- MODULE Spec2Model ----
(***************************************************************************)
(* Model of polymarket_client:                                             *)
(*   - PolymarketWebSocketClient (websocket.py): the two feed channels,    *)
(*     their handles, the background run-loop and keepalive threads, and   *)
(*     the dispatch of inbound text frames to the registered callbacks;    *)
(*   - PolymarketClient.reconcile_trades (client.py).                      *)
(***************************************************************************)
EXTENDS Integers, Sequences, FiniteSets, TLC

\* Total number of successful connect_*_channel calls in one run.
MaxConnects == 2

MARKET_CHANNEL == "market"
USER_CHANNEL == "user"
Channels == {MARKET_CHANNEL, USER_CHANNEL}
Other(c) == IF c = MARKET_CHANNEL THEN USER_CHANNEL ELSE MARKET_CHANNEL

\* The handle value None; a held WebSocketApp is named by the index (>= 1)
\* of the connect call of its channel that created it.
None == 0

VARIABLES
    auth,                     \* self.auth is not None
    message_callback,         \* self.message_callback is registered
    user_message_callback,    \* self.user_message_callback is registered
    market_message_callback,  \* self.market_message_callback is registered
    error_callback,           \* self.error_callback is registered
    close_callback,           \* self.close_callback is registered
    verbose,                  \* self.verbose
    ws,                       \* ws[c]: self._market_ws / self._user_ws
    ping_threads,             \* self._ping_threads[c]: "absent", "thread", "None"
    running,                  \* self._running
    conn,                     \* conn[c][i]: the threads of the i-th connect of c
    pc,                       \* where the caller's thread stands
    out,                      \* what the step just taken raised, invoked and sent
    trades,                   \* the argument of reconcile_trades
    reconciled,               \* reconcile_trades(trades), once computed
    again                     \* reconcile_trades of that result, once computed

config == <<auth, message_callback, user_message_callback,
            market_message_callback, error_callback, close_callback, verbose>>
feed == <<ws, ping_threads, running, conn, pc, out>>
recon == <<trades, reconciled, again>>
vars == <<auth, message_callback, user_message_callback,
          market_message_callback, error_callback, close_callback, verbose,
          ws, ping_threads, running, conn, pc, out,
          trades, reconciled, again>>

(***************************************************************************)
(* Inbound text frames.  A frame is described by what json.loads makes of  *)
(* it, by the value of its event_type field, and by whether from_payload   *)
(* of the message type that discriminator selects returns or raises.       *)
(***************************************************************************)
MarketEvents == {"book", "price_change", "tick_size_change", "last_trade_price"}
UserEvents == {"trade", "order"}
\* "absent": the object has no event_type key.

NoFrame == [parse |-> "none", event_type |-> "absent", decodes |-> FALSE]
Frames ==
    {[parse |-> "invalid", event_type |-> "absent", decodes |-> FALSE],
     [parse |-> "nondict", event_type |-> "absent", decodes |-> FALSE]}
    \cup [parse : {"dict"}, event_type : MarketEvents \cup UserEvents,
          decodes : BOOLEAN]
    \cup [parse : {"dict"}, event_type : {"unknown_xyz", "absent"},
          decodes : {FALSE}]

\* The frames of the runs that follow the connections rather than the
\* dispatch: the server's "PONG" (not JSON) and one event of each channel.
SampleFrames ==
    {[parse |-> "invalid", event_type |-> "absent", decodes |-> FALSE],
     [parse |-> "dict", event_type |-> "book", decodes |-> TRUE],
     [parse |-> "dict", event_type |-> "trade", decodes |-> TRUE]}

\* How the user's callbacks behave on one frame: TRUE = the call raises.
\* typed: the typed callback of the channel; generic: message_callback
\* (it is given the same payload each time it is called for a frame).
Behaviours == [typed : BOOLEAN, generic : BOOLEAN]
WellBehaved == [typed |-> FALSE, generic |-> FALSE]

\* What one step raised to the caller, which callbacks it invoked (counts),
\* what it printed and what it sent on the socket.
Quiet ==
    [raised |-> "none", channel |-> "none", frame |-> NoFrame,
     market_message_callback |-> 0, user_message_callback |-> 0,
     message_callback |-> 0, echo |-> 0, log |-> 0, escaped |-> FALSE,
     error_callback |-> 0, close_callback |-> 0, sent |-> "none",
     payload |-> "none"]

\* data.get("event_type", "")
event_type(frame) ==
    IF frame.event_type = "absent" THEN "" ELSE frame.event_type

\* The discriminators the on_message of channel c has a branch for.
Recognized(c) == IF c = MARKET_CHANNEL THEN MarketEvents ELSE UserEvents

\* The typed callback of channel c is registered.
TypedRegistered(c) ==
    IF c = MARKET_CHANNEL THEN market_message_callback ELSE user_message_callback

\* The try/except block of one recognized discriminator:
\*   try: msg = from_payload(data)
\*        if typed: typed(msg) elif message_callback: message_callback(c, data)
\*        elif verbose: print
\*   except Exception: if verbose: print; if message_callback: message_callback(c, data)
typed_branch(c, frame, beh) ==
    LET typed    == frame.decodes /\ TypedRegistered(c)
        generic  == frame.decodes /\ ~TypedRegistered(c) /\ message_callback
        echo     == frame.decodes /\ ~TypedRegistered(c) /\ ~message_callback
                    /\ verbose
        caught   == \/ ~frame.decodes
                    \/ typed /\ beh.typed
                    \/ generic /\ beh.generic
        fallback == caught /\ message_callback
    IN  [typed    |-> IF typed THEN 1 ELSE 0,
         generic  |-> (IF generic THEN 1 ELSE 0) + (IF fallback THEN 1 ELSE 0),
         echo     |-> IF echo THEN 1 ELSE 0,
         log      |-> IF caught /\ verbose THEN 1 ELSE 0,
         escaped  |-> fallback /\ beh.generic]

\* The raw path (unknown event type, or a non-dict payload):
\*   if message_callback: message_callback(c, data) elif verbose: print
raw_branch(c, frame, beh) ==
    [typed    |-> 0,
     generic  |-> IF message_callback THEN 1 ELSE 0,
     echo     |-> IF ~message_callback /\ verbose THEN 1 ELSE 0,
     log      |-> 0,
     escaped  |-> message_callback /\ beh.generic]

\* on_message without its `except json.JSONDecodeError`: the error of
\* json.loads leaves on_message.
non_json_branch_uncaught ==
    [typed |-> 0, generic |-> 0, echo |-> 0, log |-> 0, escaped |-> TRUE]

\* except json.JSONDecodeError: if verbose: print
non_json_branch ==
    [typed |-> 0, generic |-> 0, echo |-> 0,
     log |-> IF verbose THEN 1 ELSE 0, escaped |-> FALSE]

\* on_message of channel c applied to one frame.
on_message(c, frame, beh) ==
    IF frame.parse = "invalid" THEN non_json_branch
    ELSE IF frame.parse = "dict" /\ event_type(frame) \in Recognized(c)
         THEN typed_branch(c, frame, beh)
         ELSE raw_branch(c, frame, beh)

(***************************************************************************)
(* The client's state.                                                     *)
(***************************************************************************)
\* conn[c][i] describes the two background threads of the i-th successful
\* connect call of channel c:
\*   loop: the thread started at connect (run_connection):
\*     "ready"      started, has not yet executed self._X_ws.run_forever()
\*     "crashed"    found self._X_ws None there (AttributeError), thread dead
\*     "connecting" inside run_forever of WebSocketApp `app`, socket not open
\*     "open"       on_open has run, frames are being read
\*     "closing"    the socket is closed or failed, on_close not yet called
\*     "done"       on_close has run, run_forever returned
\*   app:  the WebSocketApp whose run_forever the thread entered (0 before)
\*   ping: the ping_loop thread started by on_open: "none", "alive", "dead"
\*   closed: close() has been called on the WebSocketApp this connect created
\*   arg:  the argument of the connect call, which its on_open closes over
\*   first: the first frame sent on the socket of the thread, "none" before
NewConn(arg) ==
    [loop |-> "ready", app |-> None, ping |-> "none", closed |-> FALSE,
     arg |-> arg, first |-> "none"]

\* connect_market_channel(asset_ids), connect_user_channel(markets=None)
Arguments(c) == IF c = MARKET_CHANNEL THEN {"asset_ids"} ELSE {"None", "markets"}

\* The subscription on_open builds for a connect call with argument arg.
subscription(c, arg) ==
    IF c = MARKET_CHANNEL
    THEN [type |-> "MARKET", assets_ids |-> arg, auth |-> "absent",
          markets |-> "absent"]
    ELSE [type |-> "USER", assets_ids |-> "absent", auth |-> "auth.to_dict()",
          markets |-> IF arg = "None" THEN "absent" ELSE arg]

Conns(c) == 1..Len(conn[c])
Connects == Len(conn[MARKET_CHANNEL]) + Len(conn[USER_CHANNEL])

\* An is_market_connected that reports whether a socket is open.
is_market_connected_open ==
    \E i \in Conns(MARKET_CHANNEL) : conn[MARKET_CHANNEL][i].loop = "open"

is_market_connected == ws[MARKET_CHANNEL] # None
is_user_connected == ws[USER_CHANNEL] # None

\* The socket of WebSocketApp a of channel c is connected: some run_forever
\* of it is past on_open and has not seen the socket close or fail.
SockOpen(c, a) == \E i \in Conns(c) : conn[c][i].app = a /\ conn[c][i].loop = "open"

Init ==
    /\ auth \in BOOLEAN
    /\ message_callback \in BOOLEAN
    /\ user_message_callback \in BOOLEAN
    /\ market_message_callback \in BOOLEAN
    /\ error_callback \in BOOLEAN
    /\ close_callback \in BOOLEAN
    /\ verbose \in BOOLEAN
    /\ ws = [c \in Channels |-> None]
    /\ ping_threads = [c \in Channels |-> "absent"]
    /\ running = FALSE
    /\ conn = [c \in Channels |-> <<>>]
    /\ pc = [fn |-> "idle", ch |-> "none", at |-> "idle"]
    /\ out = Quiet
    /\ trades = <<>>
    /\ reconciled = [done |-> FALSE, raised |-> FALSE, value |-> <<>>, input |-> <<>>]
    /\ again = [done |-> FALSE, raised |-> FALSE, value |-> <<>>, input |-> <<>>]

(***************************************************************************)
(* The caller's thread.                                                    *)
(***************************************************************************)
\* A connect without the `is not None` test of the handle.
connect_channel_unchecked(c) ==
    /\ pc.fn = "idle"
    /\ \/ /\ c = USER_CHANNEL
          /\ ~auth
          /\ out' = [Quiet EXCEPT !.raised = "auth_required"]
          /\ UNCHANGED <<ws, conn, running>>
       \/ /\ c = USER_CHANNEL => auth
          /\ Connects < MaxConnects
          /\ \E arg \in Arguments(c) :
                conn' = [conn EXCEPT ![c] = Append(@, NewConn(arg))]
          /\ ws' = [ws EXCEPT ![c] = Len(conn[c]) + 1]
          /\ running' = TRUE
          /\ out' = Quiet
    /\ UNCHANGED <<config, recon, ping_threads, pc>>

\* A connect without the `self.auth is None` test.
connect_channel_unauthenticated(c) ==
    /\ pc.fn = "idle"
    /\ \/ /\ ws[c] # None
          /\ out' = [Quiet EXCEPT !.raised = "already_connected"]
          /\ UNCHANGED <<ws, conn, running>>
       \/ /\ ws[c] = None
          /\ Connects < MaxConnects
          /\ \E arg \in Arguments(c) :
                conn' = [conn EXCEPT ![c] = Append(@, NewConn(arg))]
          /\ ws' = [ws EXCEPT ![c] = Len(conn[c]) + 1]
          /\ running' = TRUE
          /\ out' = Quiet
    /\ UNCHANGED <<config, recon, ping_threads, pc>>

\* connect_market_channel / connect_user_channel.  The WebSocketApp is
\* created and stored, the run_connection thread is started, _running set.
connect_channel(c) ==
    /\ pc.fn = "idle"
    /\ \/ /\ ws[c] # None
          /\ out' = [Quiet EXCEPT !.raised = "already_connected"]
          /\ UNCHANGED <<ws, conn, running>>
       \/ /\ ws[c] = None
          /\ c = USER_CHANNEL
          /\ ~auth
          /\ out' = [Quiet EXCEPT !.raised = "auth_required"]
          /\ UNCHANGED <<ws, conn, running>>
       \/ /\ ws[c] = None
          /\ c = USER_CHANNEL => auth
          /\ Connects < MaxConnects
          /\ \E arg \in Arguments(c) :
                conn' = [conn EXCEPT ![c] = Append(@, NewConn(arg))]
          /\ ws' = [ws EXCEPT ![c] = Len(conn[c]) + 1]
          /\ running' = TRUE
          /\ out' = Quiet
    /\ UNCHANGED <<config, recon, ping_threads, pc>>

connect_market_channel == connect_channel(MARKET_CHANNEL)
connect_user_channel == connect_channel(USER_CHANNEL)

\* WebSocketApp.close() on app a of channel c: keep_running is cleared and
\* the socket, if any, is closed; every run_forever of a that holds a
\* socket goes on to its teardown.
AppClosed(c, a) ==
    [i \in Conns(c) |->
        LET closed == conn[c][i].closed \/ i = a
        IN  IF conn[c][i].app = a /\ conn[c][i].loop \in {"connecting", "open"}
            THEN [conn[c][i] EXCEPT !.loop = "closing", !.closed = closed]
            ELSE [conn[c][i] EXCEPT !.closed = closed]]

\* close_X_channel is three statements, and the background threads run
\* between them:
\*     if self._X_ws is not None:      close_test
\*         self._X_ws.close()          close_call
\*         self._X_ws = None           close_clear
\* pc = [fn, ch, at]: the caller is inside fn, about to execute statement
\* `at` of close_<ch>_channel.
Idle == [fn |-> "idle", ch |-> "none", at |-> "idle"]

\* Where the caller stands when fn calls close_<c>_channel.
Entry(fn, c) ==
    IF fn = "close_all" /\ c = USER_CHANNEL
    THEN [fn |-> "close_all", ch |-> USER_CHANNEL, at |-> "test"]
    ELSE Idle

\* Where the caller stands when close_<c>_channel, called by fn, returns:
\* close_all goes on to close_user_channel() and then sets _running.
Return(fn, c) ==
    IF fn = "close_all" /\ c = MARKET_CHANNEL
    THEN [fn |-> "close_all", ch |-> USER_CHANNEL, at |-> "test"]
    ELSE Idle

RunningAfter(fn, c) ==
    IF fn = "close_all" /\ c = USER_CHANNEL THEN FALSE ELSE running

close_test(fn, c) ==
    /\ pc = Entry(fn, c)
    /\ IF ws[c] # None
       THEN pc' = [fn |-> fn, ch |-> c, at |-> "call"] /\ UNCHANGED running
       ELSE pc' = Return(fn, c) /\ running' = RunningAfter(fn, c)
    /\ out' = Quiet
    /\ UNCHANGED <<config, recon, ws, ping_threads, conn>>

\* self._X_ws.close(): the attribute is read again; if an on_close has
\* cleared it since the test, None.close() raises AttributeError, which
\* leaves fn.
close_call(fn, c) ==
    /\ pc = [fn |-> fn, ch |-> c, at |-> "call"]
    /\ \/ /\ ws[c] = None
          /\ pc' = Idle
          /\ out' = [Quiet EXCEPT !.raised = "AttributeError"]
          /\ UNCHANGED conn
       \/ /\ ws[c] # None
          /\ conn' = [conn EXCEPT ![c] = AppClosed(c, ws[c])]
          /\ pc' = [fn |-> fn, ch |-> c, at |-> "clear"]
          /\ out' = [Quiet EXCEPT !.sent = "close"]
    /\ UNCHANGED <<config, recon, ws, ping_threads, running>>

close_clear(fn, c) ==
    /\ pc = [fn |-> fn, ch |-> c, at |-> "clear"]
    /\ ws' = [ws EXCEPT ![c] = None]
    /\ pc' = Return(fn, c)
    /\ running' = RunningAfter(fn, c)
    /\ out' = Quiet
    /\ UNCHANGED <<config, recon, ping_threads, conn>>

close_channel(fn, c) ==
    \/ close_test(fn, c)
    \/ close_call(fn, c)
    \/ close_clear(fn, c)

close_market_channel == close_channel("close_market_channel", MARKET_CHANNEL)
close_user_channel == close_channel("close_user_channel", USER_CHANNEL)

\* close_all: close_market_channel(); close_user_channel(); _running = False
close_all ==
    \/ close_channel("close_all", MARKET_CHANNEL)
    \/ close_channel("close_all", USER_CHANNEL)

(***************************************************************************)
(* The background threads.                                                 *)
(***************************************************************************)
SetConn(c, i, field, value) ==
    conn' = [conn EXCEPT ![c][i] =
                IF field = "loop" THEN [@ EXCEPT !.loop = value]
                ELSE IF field = "app" THEN [@ EXCEPT !.app = value]
                ELSE [@ EXCEPT !.ping = value]]

\* run_connection: self._X_ws.run_forever().  The attribute is read when
\* the thread gets to run, not when connect created the thread: it is None
\* (AttributeError ends the thread) or the WebSocketApp of the latest
\* connect.  run_forever sets keep_running and opens a socket; when another
\* thread already runs the same WebSocketApp, the library may refuse instead
\* and end the thread.
run_connection(c, i) ==
    /\ conn[c][i].loop = "ready"
    /\ \/ /\ ws[c] = None
          /\ SetConn(c, i, "loop", "crashed")
       \/ /\ ws[c] # None
          /\ conn' = [conn EXCEPT ![c][i] =
                        [@ EXCEPT !.loop = "connecting", !.app = ws[c]]]
       \/ /\ ws[c] # None
          /\ \E j \in Conns(c) :
                /\ conn[c][j].app = ws[c]
                /\ conn[c][j].loop \in {"connecting", "open"}
          /\ SetConn(c, i, "loop", "crashed")
    /\ out' = Quiet
    /\ UNCHANGED <<config, recon, ws, ping_threads, running, pc>>

\* An on_open that starts the ping thread whether or not the subscription
\* could be sent.
on_open_ping_anyway(c, i) ==
    /\ conn[c][i].loop = "connecting"
    /\ \/ /\ conn' = [conn EXCEPT ![c][i] =
                        [@ EXCEPT !.loop = "open", !.ping = "alive",
                                  !.first = IF @ = "none" THEN "subscription"
                                            ELSE @]]
          /\ ping_threads' = [ping_threads EXCEPT ![c] = "thread"]
          /\ out' = [Quiet EXCEPT
                       !.sent = "subscription",
                       !.payload = subscription(c, conn[c][conn[c][i].app].arg)]
       \/ /\ conn' = [conn EXCEPT ![c][i] = [@ EXCEPT !.loop = "open",
                                                      !.ping = "alive"]]
          /\ ping_threads' = [ping_threads EXCEPT ![c] = "thread"]
          /\ out' = [Quiet EXCEPT !.escaped = TRUE,
                       !.error_callback = IF error_callback THEN 1 ELSE 0,
                       !.echo = IF ~error_callback /\ verbose THEN 1 ELSE 0]
    /\ UNCHANGED <<config, recon, ws, running, pc>>

\* on_open: the subscription is sent, then the ping thread is started and
\* stored.  When ws.send raises, the exception leaves on_open before the
\* ping thread is created, and WebSocketApp hands it to on_error.
on_open(c, i) ==
    /\ conn[c][i].loop = "connecting"
    /\ \/ /\ conn' = [conn EXCEPT ![c][i] =
                        [@ EXCEPT !.loop = "open", !.ping = "alive",
                                  !.first = IF @ = "none" THEN "subscription"
                                            ELSE @]]
          /\ ping_threads' = [ping_threads EXCEPT ![c] = "thread"]
          /\ out' = [Quiet EXCEPT
                       !.sent = "subscription",
                       !.payload = subscription(c, conn[c][conn[c][i].app].arg)]
       \/ /\ conn' = [conn EXCEPT ![c][i] = [@ EXCEPT !.loop = "open"]]
          /\ out' = [Quiet EXCEPT !.escaped = TRUE,
                       !.error_callback = IF error_callback THEN 1 ELSE 0,
                       !.echo = IF ~error_callback /\ verbose THEN 1 ELSE 0]
          /\ UNCHANGED ping_threads
    /\ UNCHANGED <<config, recon, ws, running, pc>>

\* A text frame arrives on an open socket and on_message runs on it.  An
\* exception that leaves on_message is handed to on_error by WebSocketApp.
receive(c, i, frames, behaviours) ==
    /\ conn[c][i].loop = "open"
    /\ \E frame \in frames, beh \in behaviours :
          LET d == on_message(c, frame, beh)
          IN  out' = [raised |-> "none", channel |-> c, frame |-> frame,
                      market_message_callback |->
                          IF c = MARKET_CHANNEL THEN d.typed ELSE 0,
                      user_message_callback |->
                          IF c = USER_CHANNEL THEN d.typed ELSE 0,
                      message_callback |-> d.generic,
                      echo |-> d.echo, log |-> d.log, escaped |-> d.escaped,
                      error_callback |->
                          IF d.escaped /\ error_callback THEN 1 ELSE 0,
                      close_callback |-> 0, sent |-> "none",
                      payload |-> "none"]
    /\ UNCHANGED <<config, recon, ws, ping_threads, running, conn, pc>>

message(c, i) == receive(c, i, SampleFrames, {WellBehaved})
dispatch(c, i) == receive(c, i, Frames, Behaviours)

\* An on_error that does not report the error to the error callback.
on_error_unreported(c, i) ==
    /\ conn[c][i].loop \in {"connecting", "open"}
    /\ SetConn(c, i, "loop", "closing")
    /\ out' = Quiet
    /\ UNCHANGED <<config, recon, ws, ping_threads, running, pc>>

\* on_error: a socket-level error while connecting or reading; run_forever
\* then goes on to its teardown.
on_error(c, i) ==
    /\ conn[c][i].loop \in {"connecting", "open"}
    /\ SetConn(c, i, "loop", "closing")
    /\ out' = [Quiet EXCEPT
                 !.error_callback = IF error_callback THEN 1 ELSE 0,
                 !.echo = IF ~error_callback /\ verbose THEN 1 ELSE 0]
    /\ UNCHANGED <<config, recon, ws, ping_threads, running, pc>>

\* The peer closes the connection.
remote_close(c, i) ==
    /\ conn[c][i].loop = "open"
    /\ SetConn(c, i, "loop", "closing")
    /\ out' = Quiet
    /\ UNCHANGED <<config, recon, ws, ping_threads, running, pc>>

\* An on_close that releases the handles of both channels.
on_close_both(c, i) ==
    /\ conn[c][i].loop = "closing"
    /\ SetConn(c, i, "loop", "done")
    /\ ws' = [ch \in Channels |-> None]
    /\ ping_threads' = [ping_threads EXCEPT ![c] =
                           IF @ = "absent" THEN "absent" ELSE "None"]
    /\ out' = [Quiet EXCEPT
                 !.close_callback = IF close_callback THEN 1 ELSE 0,
                 !.echo = IF ~close_callback /\ verbose THEN 1 ELSE 0]
    /\ UNCHANGED <<config, recon, running, pc>>

\* on_close, called by the teardown of run_forever.
on_close(c, i) ==
    /\ conn[c][i].loop = "closing"
    /\ SetConn(c, i, "loop", "done")
    /\ ws' = [ws EXCEPT ![c] = None]
    /\ ping_threads' = [ping_threads EXCEPT ![c] =
                           IF @ = "absent" THEN "absent" ELSE "None"]
    /\ out' = [Quiet EXCEPT
                 !.close_callback = IF close_callback THEN 1 ELSE 0,
                 !.echo = IF ~close_callback /\ verbose THEN 1 ELSE 0]
    /\ UNCHANGED <<config, recon, running, pc>>

\* A ping_loop that releases the handle when its send fails.
ping_loop_releasing(c, i) ==
    /\ conn[c][i].ping = "alive"
    /\ \/ /\ ws[c] = None
          /\ SetConn(c, i, "ping", "dead")
          /\ out' = Quiet
          /\ UNCHANGED ws
       \/ /\ ws[c] # None
          /\ SockOpen(c, conn[c][i].app)
          /\ out' = [Quiet EXCEPT !.sent = "PING"]
          /\ conn' = [conn EXCEPT ![c][i].first =
                        IF @ = "none" THEN "PING" ELSE @]
          /\ UNCHANGED ws
       \/ /\ ws[c] # None
          /\ SetConn(c, i, "ping", "dead")
          /\ out' = Quiet
          /\ ws' = [ws EXCEPT ![c] = None]
    /\ UNCHANGED <<config, recon, ping_threads, running, pc>>

\* One iteration of ping_loop: `while self._X_ws is not None:` then
\* ws.send("PING") on the WebSocketApp on_open was called with; a send that
\* raises ends the loop.  A send on a connected socket may fail too.
ping_loop(c, i) ==
    /\ conn[c][i].ping = "alive"
    /\ \/ /\ ws[c] = None
          /\ SetConn(c, i, "ping", "dead")
          /\ out' = Quiet
       \/ /\ ws[c] # None
          /\ SockOpen(c, conn[c][i].app)
          /\ out' = [Quiet EXCEPT !.sent = "PING"]
          /\ conn' = [conn EXCEPT ![c][i].first =
                        IF @ = "none" THEN "PING" ELSE @]
       \/ /\ ws[c] # None
          /\ SetConn(c, i, "ping", "dead")
          /\ out' = Quiet
    /\ UNCHANGED <<config, recon, ws, ping_threads, running, pc>>

Threads == {<<c, i>> : c \in Channels, i \in 1..MaxConnects}
Started(t) == t[2] \in Conns(t[1])

Next ==
    \/ connect_market_channel
    \/ connect_user_channel
    \/ close_market_channel
    \/ close_user_channel
    \/ close_all
    \/ \E t \in Threads : Started(t) /\ run_connection(t[1], t[2])
    \/ \E t \in Threads : Started(t) /\ on_open(t[1], t[2])
    \/ \E t \in Threads : Started(t) /\ message(t[1], t[2])
    \/ \E t \in Threads : Started(t) /\ on_error(t[1], t[2])
    \/ \E t \in Threads : Started(t) /\ remote_close(t[1], t[2])
    \/ \E t \in Threads : Started(t) /\ on_close(t[1], t[2])
    \/ \E t \in Threads : Started(t) /\ ping_loop(t[1], t[2])

\* The client under every interleaving of the caller with the background
\* threads; the message callbacks are registered, verbose is off.
InitSpec ==
    /\ Init
    /\ message_callback /\ user_message_callback /\ market_message_callback
    /\ ~verbose

Spec == InitSpec /\ [][Next]_vars

\* The client with its threads scheduled fairly: a started thread gets to
\* run, a connecting socket opens or fails, a teardown calls on_close, a
\* sleeping ping_loop wakes, and the caller finishes a close it has entered.
\* Frames, errors and closes of the peer may or may not come.
InitFair == InitSpec /\ auth /\ error_callback /\ close_callback

Fairness ==
    /\ \A t \in Threads :
          /\ WF_vars(Started(t) /\ run_connection(t[1], t[2]))
          /\ WF_vars(/\ Started(t)
                     /\ conn[t[1]][t[2]].loop = "connecting"
                     /\ (on_open(t[1], t[2]) \/ on_error(t[1], t[2])))
          /\ WF_vars(Started(t) /\ on_close(t[1], t[2]))
          /\ WF_vars(Started(t) /\ ping_loop(t[1], t[2]))
    /\ WF_vars(pc # Idle /\ (close_market_channel \/ close_user_channel \/ close_all))

SpecFair == InitFair /\ [][Next]_vars /\ Fairness

\* The dispatch of every kind of frame under every configuration of the
\* message callbacks, on channels that are connected and left open.
NextDispatch ==
    \/ connect_market_channel
    \/ connect_user_channel
    \/ \E t \in Threads : Started(t) /\ run_connection(t[1], t[2])
    \/ \E t \in Threads : Started(t) /\ on_open(t[1], t[2])
    \/ \E t \in Threads : Started(t) /\ dispatch(t[1], t[2])

InitDispatch == Init /\ auth /\ close_callback

SpecDispatch == InitDispatch /\ [][NextDispatch]_vars

(***************************************************************************)
(* PolymarketClient.reconcile_trades.                                      *)
(***************************************************************************)
\* Longest list of trades given to reconcile_trades.
MaxTrades == 3
\* Largest bucket_index of an input trade.
MaxBucket == 2

\* A decimal literal: the integer `digits` with `scale` digits after the
\* point.  Dec(15, 1) is "1.5", Dec(2, 0) is "2", Dec(20, 1) is "2.0".
Dec(d, s) == [digits |-> d, scale |-> s]

\* A size that float() cannot parse, such as "abc": a literal with no scale.
Malformed == [digits |-> 0, scale |-> -1]
\* float(size) returns (it raises ValueError otherwise).
parses(size) == size.scale >= 0

RECURSIVE Pow10(_)
Pow10(n) == IF n = 0 THEN 1 ELSE 10 * Pow10(n - 1)

\* float(size), counted in quarters.  The sizes of the model are multiples
\* of 0.25, which a double holds exactly, as it does their sums.
float_of(size) == (size.digits * 4) \div Pow10(size.scale)

\* str(x) of the float x (in quarters): the shortest literal that reads
\* back as x, which always has a point: "4.0", "3.5", "3.75".
str_of(x) ==
    IF x % 4 = 0 THEN Dec((x \div 4) * 10, 1)
    ELSE IF x % 2 = 0 THEN Dec((x * 10) \div 4, 1)
    ELSE Dec((x * 100) \div 4, 2)

\* sum(float(trade.size) for trade in sorted_trades)
RECURSIVE total_size(_)
total_size(ts) ==
    IF ts = <<>> THEN 0 ELSE float_of(Head(ts).size) + total_size(Tail(ts))

\* Timestamps are strings of digits, written as sequences of digits.
\* a < b for str: the first differing character decides, a proper prefix is
\* smaller.
RECURSIVE str_less(_, _)
str_less(a, b) ==
    IF b = <<>> THEN FALSE
    ELSE IF a = <<>> THEN TRUE
    ELSE IF Head(a) # Head(b) THEN Head(a) < Head(b)
    ELSE str_less(Tail(a), Tail(b))

\* max(trade.last_update for trade in sorted_trades): the first largest.
RECURSIVE max_last_update(_)
max_last_update(ts) ==
    IF Len(ts) = 1 THEN ts[1].last_update
    ELSE LET m == max_last_update(SubSeq(ts, 1, Len(ts) - 1))
         IN  IF str_less(m, ts[Len(ts)].last_update)
             THEN ts[Len(ts)].last_update ELSE m

\* The group left in input order: the sort left out.
unsorted(ts) == ts

\* sorted(group_trades, key=lambda t: t.bucket_index): stable.
RECURSIVE sorted_by_bucket(_)
sorted_by_bucket(ts) ==
    IF ts = <<>> THEN <<>>
    ELSE LET rest == sorted_by_bucket(SubSeq(ts, 1, Len(ts) - 1))
             t == ts[Len(ts)]
             n == Cardinality({i \in 1..Len(rest) :
                                  rest[i].bucket_index <= t.bucket_index})
         IN  SubSeq(rest, 1, n) \o <<t>> \o SubSeq(rest, n + 1, Len(rest))

\* Maker orders of the base trade only.
base_maker_orders(ts) ==
    IF ts = <<>> THEN <<>> ELSE Head(ts).maker_orders

\* all_maker_orders: extend with each trade's maker_orders in turn.
RECURSIVE all_maker_orders(_)
all_maker_orders(ts) ==
    IF ts = <<>> THEN <<>>
    ELSE Head(ts).maker_orders \o all_maker_orders(Tail(ts))

Key(t) == <<t.taker_order_id, t.match_time>>

\* Grouping of adjacent trades only: a trade opens a new group whenever its
\* key differs from the key of the trade before it.
RECURSIVE trade_groups_adjacent(_)
trade_groups_adjacent(ts) ==
    IF ts = <<>> THEN <<>>
    ELSE LET n == CHOOSE m \in 1..Len(ts) :
                     /\ \A i \in 1..m : Key(ts[i]) = Key(ts[1])
                     /\ m < Len(ts) => Key(ts[m + 1]) # Key(ts[1])
         IN  <<SubSeq(ts, 1, n)>>
                 \o trade_groups_adjacent(SubSeq(ts, n + 1, Len(ts)))

\* trade_groups.values(): the groups in the order their keys first occur,
\* each group in input order.
RECURSIVE trade_groups(_)
trade_groups(ts) ==
    IF ts = <<>> THEN <<>>
    ELSE LET Same(t) == Key(t) = Key(Head(ts))
             Differs(t) == Key(t) # Key(Head(ts))
         IN  <<SelectSeq(ts, Same)>> \o trade_groups(SelectSeq(ts, Differs))

\* A reconciled trade whose base is the first trade of the input, not of
\* the sorted list.
reconciled_trade_input_base(group_trades) ==
    LET sorted_trades == sorted_by_bucket(group_trades)
        base_trade == group_trades[1]
    IN  [id |-> base_trade.id,
         taker_order_id |-> base_trade.taker_order_id,
         size |-> str_of(total_size(sorted_trades)),
         status |-> base_trade.status,
         match_time |-> base_trade.match_time,
         last_update |-> max_last_update(sorted_trades),
         transaction_hash |-> base_trade.transaction_hash,
         bucket_index |-> 0,
         maker_orders |-> all_maker_orders(sorted_trades),
         other |-> base_trade.other]

\* The reconciled trade of a group of two or more.
reconciled_trade(group_trades) ==
    LET sorted_trades == sorted_by_bucket(group_trades)
        base_trade == sorted_trades[1]
    IN  [id |-> base_trade.id,
         taker_order_id |-> base_trade.taker_order_id,
         size |-> str_of(total_size(sorted_trades)),
         status |-> base_trade.status,
         match_time |-> base_trade.match_time,
         last_update |-> max_last_update(sorted_trades),
         transaction_hash |-> base_trade.transaction_hash,
         bucket_index |-> 0,
         maker_orders |-> all_maker_orders(sorted_trades),
         other |-> base_trade.other]

\* The loop body without the pass-through: every group is merged, a group
\* of one trade too.
reconcile_group_always_merged(group_trades) ==
    <<reconciled_trade(group_trades)>>

\* The loop body with the merge outside the `else`: a group of one trade is
\* appended as it is and then once more as a merged record.
reconcile_group_no_else(group_trades) ==
    IF Len(group_trades) = 1
    THEN <<group_trades[1], reconciled_trade(group_trades)>>
    ELSE <<reconciled_trade(group_trades)>>

\* What the loop body appends to `reconciled` for one group.
reconcile_group(group_trades) ==
    IF Len(group_trades) = 1
    THEN <<group_trades[1]>>
    ELSE <<reconciled_trade(group_trades)>>

RECURSIVE reconcile_groups(_)
reconcile_groups(groups) ==
    IF groups = <<>> THEN <<>>
    ELSE reconcile_group(Head(groups)) \o reconcile_groups(Tail(groups))

reconcile_trades(ts) ==
    IF ts = <<>> THEN <<>> ELSE reconcile_groups(trade_groups(ts))

\* float(trade.size) raises ValueError in the loop: some group of two or
\* more trades holds a size that does not parse.  Nothing is returned then.
reconcile_raises(ts) ==
    LET groups == trade_groups(ts)
    IN  \E g \in 1..Len(groups) :
           /\ Len(groups[g]) >= 2
           /\ \E i \in 1..Len(groups[g]) : ~parses(groups[g][i].size)

\* The argument after a call in which the maker orders are collected in
\* the base trade's own list instead of a new one.
input_after_aliased(ts) ==
    [i \in DOMAIN ts |->
        LET SameKey(t) == Key(t) = Key(ts[i])
            sorted_trades == sorted_by_bucket(SelectSeq(ts, SameKey))
        IN  IF Len(sorted_trades) >= 2 /\ sorted_trades[1] = ts[i]
            THEN [ts[i] EXCEPT !.maker_orders =
                                   @ \o all_maker_orders(sorted_trades)]
            ELSE ts[i]]

\* The argument after the call.  The loops only read the trades: what they
\* write is trade_groups and its lists, `reconciled`, the new list
\* all_maker_orders and the new Trade; sorted() returns a new list.
input_after(ts) == [i \in DOMAIN ts |-> ts[i]]

\* The outcome of the call reconcile_trades(ts), and ts as the call leaves
\* it.
call_reconcile_trades(ts) ==
    IF reconcile_raises(ts)
    THEN [done |-> TRUE, raised |-> TRUE, value |-> <<>>,
          input |-> input_after(ts)]
    ELSE [done |-> TRUE, raised |-> FALSE, value |-> reconcile_trades(ts),
          input |-> input_after(ts)]

\* The input trades.  The k-th trade of the list has its own id,
\* transaction hash, status, last_update and maker orders; its key, its
\* bucket_index and its size are chosen freely.
Keys == {<<"a", "1">>, <<"a", "2">>, <<"b", "1">>}
Sizes == {Dec(15, 1), Dec(2, 0)}
Statuses == <<"MATCHED", "MINED", "CONFIRMED", "RETRYING", "FAILED">>
LastUpdates == <<<<1, 0, 0>>, <<2, 5, 0>>, <<9, 9>>, <<1, 0, 0, 0>>>>
Choices == [key : Keys, bucket_index : 0..MaxBucket, size : Sizes]

TradeAt(k, ch) ==
    [id |-> k,
     taker_order_id |-> ch.key[1],
     size |-> ch.size,
     status |-> Statuses[((k - 1) % Len(Statuses)) + 1],
     match_time |-> ch.key[2],
     last_update |-> LastUpdates[((k - 1) % Len(LastUpdates)) + 1],
     transaction_hash |-> k,
     bucket_index |-> ch.bucket_index,
     maker_orders |-> [j \in 1..(k % 3) |-> <<k, j>>],
     other |-> k]

\* Inputs with sizes that do not parse: two keys, every size.
KeysMalformed == {<<"a", "1">>, <<"b", "1">>}
ChoicesMalformed ==
    [key : KeysMalformed, bucket_index : 0..MaxBucket,
     size : Sizes \cup {Malformed}]

NotYet == [done |-> FALSE, raised |-> FALSE, value |-> <<>>, input |-> <<>>]

InitTrades(choices) ==
    /\ auth = FALSE /\ message_callback = FALSE
    /\ user_message_callback = FALSE /\ market_message_callback = FALSE
    /\ error_callback = FALSE /\ close_callback = FALSE /\ verbose = FALSE
    /\ ws = [c \in Channels |-> None]
    /\ ping_threads = [c \in Channels |-> "absent"]
    /\ running = FALSE
    /\ conn = [c \in Channels |-> <<>>]
    /\ pc = Idle
    /\ out = Quiet
    /\ \E n \in 0..MaxTrades : \E f \in [1..n -> choices] :
          trades = [k \in 1..n |-> TradeAt(k, f[k])]
    /\ reconciled = NotYet
    /\ again = NotYet

InitReconcile == InitTrades(Choices)
InitMalformed == InitTrades(ChoicesMalformed)

\* reconciled = reconcile_trades(trades)
Reconcile ==
    /\ ~reconciled.done
    /\ reconciled' = call_reconcile_trades(trades)
    /\ UNCHANGED <<config, feed, trades, again>>

\* again = reconcile_trades(reconciled)
ReconcileAgain ==
    /\ reconciled.done
    /\ ~reconciled.raised
    /\ ~again.done
    /\ again' = call_reconcile_trades(reconciled.value)
    /\ UNCHANGED <<config, feed, trades, reconciled>>

NextReconcile == Reconcile \/ ReconcileAgain

SpecReconcile == InitReconcile /\ [][NextReconcile]_vars

SpecMalformed == InitMalformed /\ [][NextReconcile]_vars

(***************************************************************************)
(* Properties of the feed client.                                          *)
(***************************************************************************)
CloseFns == {"close_market_channel", "close_user_channel", "close_all"}

\* C1: for each channel, a connect call made while the channel holds a
\* handle raises the already-connected error and leaves the handle, the
\* threads and the rest of the client as they were; and as long as a handle
\* is held no step starts a new run-loop or puts another handle in its place.
C1_DoubleConnectFails ==
    [][\A c \in Channels :
          /\ (connect_channel(c) /\ ws[c] # None) =>
                /\ out'.raised = "already_connected"
                /\ UNCHANGED <<ws, conn, ping_threads, running, pc>>
          /\ ws[c] # None =>
                /\ Len(conn'[c]) = Len(conn[c])
                /\ ws'[c] \in {ws[c], None}]_vars

\* C1: a second connect_user_channel has been refused while the user
\* channel is connected and its socket open.
C1_Witness ==
    /\ out.raised = "already_connected"
    /\ is_user_connected
    /\ ~is_market_connected
    /\ \E i \in Conns(USER_CHANNEL) : conn[USER_CHANNEL][i].loop = "open"

\* C2: on a client constructed without auth, every connect_user_channel
\* call raises the missing-credentials error and changes nothing; the user
\* channel never holds a handle and never gets a thread, whatever happens
\* on the market channel.
C2_UserNeedsAuth ==
    /\ [](~auth => (~is_user_connected /\ conn[USER_CHANNEL] = <<>>))
    /\ [][(connect_channel(USER_CHANNEL) /\ ~auth) =>
             /\ out'.raised = "auth_required"
             /\ UNCHANGED <<ws, conn, ping_threads, running, pc>>]_vars

\* C2: connect_user_channel has been refused for want of credentials while
\* the market channel is connected and open.
C2_Witness ==
    /\ ~auth
    /\ out.raised = "auth_required"
    /\ is_market_connected
    /\ \E i \in Conns(MARKET_CHANNEL) : conn[MARKET_CHANNEL][i].loop = "open"

\* A step of channel c: a statement of a connect or close of c, or a step
\* of one of c's background threads.
ChannelStep(c) ==
    \/ connect_channel(c)
    \/ \E fn \in CloseFns : close_channel(fn, c)
    \/ \E i \in Conns(c) :
          \/ run_connection(c, i)
          \/ on_open(c, i)
          \/ message(c, i)
          \/ on_error(c, i)
          \/ remote_close(c, i)
          \/ on_close(c, i)
          \/ ping_loop(c, i)

\* C3: no step of one channel changes the handle of the other channel (so
\* closing one channel leaves the other's is_connected as it was).
C3_ChannelIndependence ==
    [][\A c \in Channels :
          ChannelStep(c) => ws'[Other(c)] = ws[Other(c)]]_vars

\* C3: the market channel has been closed by the caller (its socket is on
\* its way down, its handle released) while the user channel is connected
\* and open.
C3_Witness ==
    /\ ~is_market_connected
    /\ \E i \in Conns(MARKET_CHANNEL) : conn[MARKET_CHANNEL][i].loop = "closing"
    /\ pc = Idle
    /\ is_user_connected
    /\ \E i \in Conns(USER_CHANNEL) : conn[USER_CHANNEL][i].loop = "open"

\* C4: close_market_channel, close_user_channel and close_all never fail,
\* leave the channel they close without a handle, and on a channel that has
\* no handle change nothing and send no close.
C4_CloseIdempotent ==
    [][\A fn \in CloseFns, c \in Channels :
          /\ close_channel(fn, c) => out'.raised = "none"
          /\ close_clear(fn, c) => ws'[c] = None
          /\ (close_test(fn, c) /\ ws[c] = None) =>
                /\ UNCHANGED <<ws, conn, ping_threads>>
                /\ out'.sent = "none"]_vars

(***************************************************************************)
(* Properties of the dispatch of a frame.  `out` describes the frame the   *)
(* step just taken dispatched, if it dispatched one.                       *)
(***************************************************************************)
RecognizedFrame ==
    /\ out.frame.parse = "dict"
    /\ event_type(out.frame) \in Recognized(out.channel)
UnknownFrame == out.frame.parse \in {"dict", "nondict"} /\ ~RecognizedFrame
TypedCalls == out.market_message_callback + out.user_message_callback

\* C5: for a frame with a recognized discriminator of its channel that
\* decodes, when the channel's typed callback is registered the generic
\* callback is not invoked.
C5_TypedPrecedence ==
    (RecognizedFrame /\ out.frame.decodes /\ TypedRegistered(out.channel))
        => out.message_callback = 0

\* C6: for every frame, no two of the typed callback, the generic callback
\* and the verbose echo are invoked.
C6_OneDeliveryPath ==
    /\ ~(TypedCalls > 0 /\ out.message_callback > 0)
    /\ ~(TypedCalls > 0 /\ out.echo > 0)
    /\ ~(out.message_callback > 0 /\ out.echo > 0)

\* C7: a frame whose discriminator is not one of its channel's is given to
\* the generic callback when one is registered, to no typed callback, and
\* its dispatch does not raise.
C7_UnknownToGeneric ==
    UnknownFrame =>
        /\ message_callback => out.message_callback = 1
        /\ TypedCalls = 0
        /\ ~out.escaped

\* C8: a frame that is not JSON invokes no typed, generic or error
\* callback, raises nothing, and leaves the handles and the threads of the
\* client as they were, the receiving run-loop still reading frames.
C8_NonJsonSwallowed ==
    [][out'.frame.parse = "invalid" =>
          /\ TypedCalls' = 0
          /\ out'.message_callback = 0
          /\ out'.error_callback = 0
          /\ ~out'.escaped
          /\ UNCHANGED <<ws, conn, ping_threads, running, pc>>
          /\ \E i \in Conns(out'.channel) :
                conn'[out'.channel][i].loop = "open"]_vars

\* C8: a frame that is not JSON has been received on the user channel of a
\* client whose generic, typed and error callbacks are all registered.
C8_Witness ==
    /\ out.frame.parse = "invalid"
    /\ out.channel = USER_CHANNEL
    /\ message_callback /\ user_message_callback /\ error_callback
    /\ is_user_connected

\* C9: when a frame with a recognized discriminator fails to decode, the
\* generic callback is invoked once if registered, the typed and the error
\* callback are not invoked, and nothing is raised out of on_message.
C9_DecodeFailureFallsBack ==
    (RecognizedFrame /\ ~out.frame.decodes) =>
        /\ out.message_callback = IF message_callback THEN 1 ELSE 0
        /\ TypedCalls = 0
        /\ out.error_callback = 0
        /\ ~out.escaped

(***************************************************************************)
(* Properties of reconcile_trades.                                         *)
(***************************************************************************)
\* C10: reconcile_trades(reconcile_trades(trades)) equals
\* reconcile_trades(trades), field for field and in the same order.
C10_Idempotent == again.done => again.value = reconciled.value

\* C10: a list holding a group of several fragments and another group has
\* been reconciled twice.
C10_Witness ==
    /\ again.done
    /\ Len(reconciled.value) >= 2
    /\ Len(reconciled.value) < Len(trades)

\* The call has returned a list.
Returned == reconciled.done /\ ~reconciled.raised
InputKeys == {Key(trades[i]) : i \in DOMAIN trades}
\* The input trades of key k, in input order.
Group(k) ==
    LET HasKey(t) == Key(t) = k
    IN  SelectSeq(trades, HasKey)
\* The keys of the groups of two or more fragments.
MultiKeys == {k \in InputKeys : Len(Group(k)) >= 2}
\* The output records of key k.
Recs(k) ==
    {reconciled.value[j] : j \in {i \in DOMAIN reconciled.value :
                                     Key(reconciled.value[i]) = k}}

\* The exact decimal sum of two decimal literals.
decimal_add(a, b) ==
    LET s == IF a.scale >= b.scale THEN a.scale ELSE b.scale
    IN  Dec(a.digits * Pow10(s - a.scale) + b.digits * Pow10(s - b.scale), s)
RECURSIVE decimal_sum(_)
decimal_sum(ts) ==
    IF Len(ts) = 1 THEN ts[1].size
    ELSE decimal_add(decimal_sum(SubSeq(ts, 1, Len(ts) - 1)), ts[Len(ts)].size)

\* C11: the size of the merged record of every group of two or more
\* fragments is the exact decimal sum of the fragments' sizes, written as
\* decimal arithmetic writes it.
C11_ExactDecimalSum ==
    Returned =>
        \A k \in MultiKeys :
            /\ Recs(k) # {}
            /\ \A r \in Recs(k) : r.size = decimal_sum(Group(k))

\* The maker orders of the fragments of g whose bucket_index is b or more,
\* bucket by bucket, the fragments of one bucket in input order.
RECURSIVE orders_from_bucket(_, _)
orders_from_bucket(g, b) ==
    IF \A i \in 1..Len(g) : g[i].bucket_index < b THEN <<>>
    ELSE LET InBucket(t) == t.bucket_index = b
             frs == SelectSeq(g, InBucket)
             Flat[n \in 0..Len(frs)] ==
                 IF n = 0 THEN <<>> ELSE Flat[n - 1] \o frs[n].maker_orders
         IN  Flat[Len(frs)] \o orders_from_bucket(g, b + 1)

\* C12: the maker_orders of the merged record of every group of two or more
\* fragments is the concatenation of the fragments' maker_orders in
\* ascending bucket_index, fragments of equal bucket_index in input order.
C12_MakerOrdersByBucket ==
    Returned =>
        \A k \in MultiKeys :
            /\ Recs(k) # {}
            /\ \A r \in Recs(k) : r.maker_orders = orders_from_bucket(Group(k), 0)

\* C12: a group has been merged whose fragments came in descending
\* bucket_index, each with maker orders of its own.
C12_Witness ==
    /\ Returned
    /\ \E k \in MultiKeys :
          /\ Group(k)[1].bucket_index > Group(k)[2].bucket_index
          /\ Group(k)[1].maker_orders # <<>>
          /\ Group(k)[2].maker_orders # <<>>
          /\ \E r \in Recs(k) : Len(r.maker_orders) >= 3

\* C13: a trade that is alone in its group is the one output record of its
\* key, every field as it was in the input.
C13_SinglePassThrough ==
    Returned =>
        \A i \in DOMAIN trades :
            Len(Group(Key(trades[i]))) = 1 => Recs(Key(trades[i])) = {trades[i]}

\* C13: a trade alone in its group, with a bucket_index above 0, a size
\* written without a point and maker orders, has been returned next to a
\* merged group.
C13_Witness ==
    /\ Returned
    /\ MultiKeys # {}
    /\ \E i \in DOMAIN trades :
          /\ Len(Group(Key(trades[i]))) = 1
          /\ trades[i].bucket_index > 0
          /\ trades[i].size = Dec(2, 0)
          /\ trades[i].maker_orders # <<>>

\* The number a string of digits writes.
RECURSIVE number_of(_)
number_of(ds) ==
    IF ds = <<>> THEN 0
    ELSE 10 * number_of(SubSeq(ds, 1, Len(ds) - 1)) + ds[Len(ds)]

\* C14: the last_update of the merged record of every group of two or more
\* fragments is the latest last_update of the group's members.
C14_LatestLastUpdate ==
    Returned =>
        \A k \in MultiKeys :
            /\ Recs(k) # {}
            /\ \A r \in Recs(k) :
                  /\ \E i \in 1..Len(Group(k)) :
                        r.last_update = Group(k)[i].last_update
                  /\ \A i \in 1..Len(Group(k)) :
                        number_of(Group(k)[i].last_update)
                            <= number_of(r.last_update)

\* C15: when some input trade has a size that does not parse, the call
\* raises and returns nothing.
C15_MalformedSizeFails ==
    (reconciled.done /\ \E i \in DOMAIN trades : ~parses(trades[i].size))
        => (reconciled.raised /\ reconciled.value = <<>>)

\* C16: the output holds one record for every key of the input and no two
\* records of one key; an empty input gives an empty output.
C16_OneRecordPerKey ==
    Returned =>
        /\ \A i, j \in DOMAIN reconciled.value :
              i # j => Key(reconciled.value[i]) # Key(reconciled.value[j])
        /\ {Key(reconciled.value[j]) : j \in DOMAIN reconciled.value} = InputKeys
        /\ trades = <<>> => reconciled.value = <<>>

\* C16: a list has been reconciled in which the two fragments of one key
\* are separated by a trade of another key.
C16_Witness ==
    /\ Returned
    /\ Len(trades) = 3
    /\ Key(trades[1]) = Key(trades[3])
    /\ Key(trades[1]) # Key(trades[2])
    /\ Len(reconciled.value) = 2

\* The base of a group: the first in input order of the fragments with the
\* lowest bucket_index.
Base(g) ==
    g[CHOOSE i \in 1..Len(g) :
         \A j \in 1..Len(g) :
            \/ g[i].bucket_index < g[j].bucket_index
            \/ g[i].bucket_index = g[j].bucket_index /\ i <= j]

ActiveSockets(c) ==
    {i \in Conns(c) : conn[c][i].loop \in {"connecting", "open"}}

\* C18: at most one socket of a channel is connecting or connected at any
\* time.
C18_OneActiveSocket ==
    \A c \in Channels : Cardinality(ActiveSockets(c)) <= 1

\* The connection of thread t has ended: close() was called on it, its
\* socket failed or was closed by the peer, or its run-loop never started.
Ended(t) ==
    /\ Started(t)
    /\ \/ conn[t[1]][t[2]].closed
       \/ conn[t[1]][t[2]].loop \in {"closing", "crashed", "done"}

\* C19: every connection that has ended is eventually followed by its
\* on_close, and on_close invokes the close callback once.
C19_CloseCallbackFires ==
    /\ \A t \in Threads :
          Ended(t) ~> (Started(t) /\ conn[t[1]][t[2]].loop = "done")
    /\ [][\A t \in Threads :
             (/\ Started(t)
              /\ conn[t[1]][t[2]].loop # "done"
              /\ conn'[t[1]][t[2]].loop = "done") => out'.close_callback = 1]_vars

\* C20: after a connection has ended, its run-loop and its ping_loop
\* eventually terminate.
C20_ClosedTerminates ==
    \A t \in Threads :
        Ended(t) ~> (/\ Started(t)
                     /\ conn[t[1]][t[2]].loop \in {"done", "crashed"}
                     /\ conn[t[1]][t[2]].ping # "alive")

\* C21: on every connection the first frame sent after the socket opens is
\* the subscription of its channel (type MARKET with the asset ids given to
\* the connect call; type USER with the auth triple, and a markets field
\* exactly when markets is not None); every PING of the connection comes
\* after it, and when the subscription cannot be sent no ping loop starts.
C21_HandshakeFirst ==
    /\ [](\A t \in Threads : Started(t) =>
            LET k == conn[t[1]][t[2]]
            IN  /\ k.first \in {"none", "subscription"}
                /\ k.ping # "none" => k.first = "subscription")
    /\ [][\A t \in Threads : Started(t) /\ on_open(t[1], t[2]) =>
            LET c == t[1]
                given == conn[c][conn[c][t[2]].app].arg
                k == conn'[c][t[2]]
            IN  \/ /\ out'.sent = "subscription"
                   /\ c = MARKET_CHANNEL =>
                         /\ out'.payload.type = "MARKET"
                         /\ out'.payload.assets_ids = given
                   /\ c = USER_CHANNEL =>
                         /\ out'.payload.type = "USER"
                         /\ out'.payload.auth # "absent"
                         /\ (out'.payload.markets # "absent") <=> (given # "None")
                         /\ given # "None" => out'.payload.markets = given
                \/ /\ out'.sent = "none"
                   /\ k.ping = "none"
                   /\ k.first = "none"]_vars

\* A user connection subscribed with markets has sent a PING after it, and
\* on the other channel a subscription could not be sent.
C21_Witness ==
    /\ out.sent = "PING"
    /\ \E i \in Conns(USER_CHANNEL) :
          /\ conn[USER_CHANNEL][i].first = "subscription"
          /\ conn[USER_CHANNEL][i].arg = "markets"
          /\ conn[USER_CHANNEL][i].ping = "alive"
    /\ \E i \in Conns(MARKET_CHANNEL) :
          /\ conn[MARKET_CHANNEL][i].loop = "open"
          /\ conn[MARKET_CHANNEL][i].ping = "none"

is_connected(c) ==
    IF c = MARKET_CHANNEL THEN is_market_connected ELSE is_user_connected

\* The caller's step returns from, or raises out of, a close of channel c.
CloseReturns(c) ==
    \E fn \in CloseFns :
        /\ close_channel(fn, c)
        /\ ~(pc'.ch = c /\ pc'.at \in {"call", "clear"})

\* C22: connect returns without waiting for the socket to open, and
\* is_X_connected() is true exactly while the client holds a handle for X:
\* from the return of a successful connect (before the socket is open or
\* the subscription sent), and no longer after an explicit close or after
\* the close event of the connection.
C22_ConnectedIffHandle ==
    /\ [](\A c \in Channels : is_connected(c) <=> ws[c] # None)
    /\ [][\A c \in Channels :
            /\ connect_channel(c) /\ out'.raised = "none" =>
                  /\ is_connected(c)'
                  /\ conn'[c][Len(conn'[c])].loop = "ready"
                  /\ conn'[c][Len(conn'[c])].first = "none"
            /\ CloseReturns(c) => ~is_connected(c)'
            /\ \A i \in Conns(c) : on_close(c, i) => ~is_connected(c)'
            /\ is_connected(c)' # is_connected(c) =>
                  \/ connect_channel(c)
                  \/ CloseReturns(c)
                  \/ \E t \in Threads : Started(t) /\ on_close(t[1], t[2])]_vars

\* The market channel reports connected while its run-loop has not started,
\* and the user channel has stopped reporting it after a close event.
C22_Witness ==
    /\ is_market_connected
    /\ conn[MARKET_CHANNEL][ws[MARKET_CHANNEL]].loop = "ready"
    /\ ~is_user_connected
    /\ Len(conn[USER_CHANNEL]) = 1
    /\ conn[USER_CHANNEL][1].loop = "done"
    /\ out.close_callback = 1

\* C23: a socket error on a connected channel invokes the error callback and
\* moves the channel to Closed: the close event follows, after it the
\* channel no longer reports connected, and a connect on a channel that
\* does not report connected is accepted.
C23_ErrorCloses ==
    /\ [][\A t \in Threads : Started(t) /\ on_error(t[1], t[2]) =>
            /\ out'.error_callback = 1
            /\ conn'[t[1]][t[2]].loop = "closing"]_vars
    /\ \A t \in Threads :
          (Started(t) /\ conn[t[1]][t[2]].loop = "closing")
              ~> (/\ Started(t)
                  /\ conn[t[1]][t[2]].loop = "done"
                  /\ ~is_connected(t[1]))
    /\ [][\A c \in Channels : ~is_connected(c) /\ connect_channel(c) =>
            /\ out'.raised = "none"
            /\ is_connected(c)']_vars

\* A market connection that was never closed by the caller has ended, a
\* second connect was accepted, and its socket has just failed.
C23_Witness ==
    /\ Len(conn[MARKET_CHANNEL]) = 2
    /\ conn[MARKET_CHANNEL][1].loop = "done"
    /\ ~conn[MARKET_CHANNEL][1].closed
    /\ conn[MARKET_CHANNEL][2].loop = "closing"
    /\ ~conn[MARKET_CHANNEL][2].closed
    /\ out.error_callback = 1

\* C24: a keepalive send that fails ends the ping loop of that connection
\* and nothing else: the handle stays, no run-loop changes, no socket is
\* closed, neither the error nor the close callback is invoked, the other
\* channel is untouched, and the channel still reports connected.
C24_PingFailureIsLocal ==
    [][\A t \in Threads :
          LET c == t[1]
              i == t[2]
          IN  (/\ Started(t)
               /\ ping_loop(c, i)
               /\ ws[c] # None
               /\ conn'[c][i].ping = "dead") =>
                  /\ ws' = ws
                  /\ is_connected(c)'
                  /\ ping_threads' = ping_threads
                  /\ running' = running
                  /\ conn'[Other(c)] = conn[Other(c)]
                  /\ conn'[c] = [conn[c] EXCEPT ![i].ping = "dead"]
                  /\ out'.error_callback = 0
                  /\ out'.close_callback = 0
                  /\ out'.sent = "none"]_vars

\* The only market connection ever made is open and still held, and its
\* ping loop has ended on a failed send.
C24_Witness ==
    /\ Len(conn[MARKET_CHANNEL]) = 1
    /\ is_market_connected
    /\ conn[MARKET_CHANNEL][1].loop = "open"
    /\ conn[MARKET_CHANNEL][1].ping = "dead"
    /\ is_user_connected

\* C25: within one channel the frames are delivered to the callbacks one at
\* a time and once each: the dispatch of a frame invokes one callback at
\* most, one time, before the next frame is read; no frame is delivered
\* twice.
C25_DeliveredOnce ==
    out.frame # NoFrame => TypedCalls + out.message_callback <= 1

\* The run_connection threads of channel c that are inside run_forever, and
\* the ping_loop threads of c that have not ended.
RunLoops(c) ==
    {i \in Conns(c) : conn[c][i].loop \in {"connecting", "open", "closing"}}
PingLoops(c) == {i \in Conns(c) : conn[c][i].ping = "alive"}

\* C26: at any time each channel has at most one socket run-loop and at most
\* one keepalive loop running, whatever the sequence of connects, closes
\* and reconnects and however the background events fall between them.
C26_OneLoopOfEachKind ==
    \A c \in Channels :
        /\ Cardinality(RunLoops(c)) <= 1
        /\ Cardinality(PingLoops(c)) <= 1

\* C27: there is no automatic reconnection: while a channel is Closed (it
\* holds no handle) no socket of it is opened, no run-loop is started and
\* it stays disconnected, until the caller calls connect.
C27_NoReconnect ==
    [][\A c \in Channels :
          (ws[c] = None /\ ~connect_channel(c)) =>
              /\ ws'[c] = None
              /\ Len(conn'[c]) = Len(conn[c])
              /\ \A i \in Conns(c) :
                    conn'[c][i].loop \in {"connecting", "open"} =>
                        conn'[c][i].loop = conn[c][i].loop]_vars

\* C28: the close event of an earlier connection never clears the handle of
\* a later connection of its channel: when on_close runs for a WebSocketApp
\* other than the one the client holds, the channel still reports connected.
C28_StaleCloseKeepsHandle ==
    [][\A t \in Threads :
          (/\ Started(t)
           /\ on_close(t[1], t[2])
           /\ ws[t[1]] # None
           /\ ws[t[1]] # conn[t[1]][t[2]].app) =>
              /\ ws'[t[1]] = ws[t[1]]
              /\ is_connected(t[1])']_vars

\* The positions <<i, j>> of the maker orders of a list of trades, and the
\* number of times maker order o stands under key k in it.
OrderSlots(ts) ==
    UNION {{<<i, j>> : j \in DOMAIN ts[i].maker_orders} : i \in DOMAIN ts}
Occurrences(ts, k, o) ==
    Cardinality({p \in OrderSlots(ts) :
                    /\ Key(ts[p[1]]) = k
                    /\ ts[p[1]].maker_orders[p[2]] = o})
OrdersOf(ts) == {ts[p[1]].maker_orders[p[2]] : p \in OrderSlots(ts)}

\* C29: reconcile_trades conserves the sub-fills: every maker order occurs
\* in the output as many times as in the input, and under the
\* (taker_order_id, match_time) key of the trade it came from.
C29_MakerOrdersConserved ==
    Returned =>
        \A k \in Keys :
            \A o \in OrdersOf(trades) \cup OrdersOf(reconciled.value) :
                Occurrences(reconciled.value, k, o) = Occurrences(trades, k, o)

\* Two fragments with maker orders were merged into a record that holds
\* the three of them.
C29_Witness ==
    /\ Returned
    /\ \E k \in MultiKeys : \E r \in Recs(k) : Len(r.maker_orders) = 3
    /\ Len(reconciled.value) = 2

\* The place of the first input trade of key k.
FirstAt(k) ==
    CHOOSE i \in DOMAIN trades :
        /\ Key(trades[i]) = k
        /\ \A j \in 1..(i - 1) : Key(trades[j]) # k

====
